---- MODULE Spec2Model ----
(***************************************************************************)
(* A model of the runtime access-control and persistence engine of         *)
(* root-core: the generic repository (soft delete, filters, audit log),    *)
(* the identity cache, the request identity context and the permission     *)
(* enforcer.                                                               *)
(*                                                                         *)
(* The ORM is an external collaborator.  What the model takes from it:     *)
(*  - a statement is immutable; execution_options() returns a new          *)
(*    statement and leaves the receiver as it was;                         *)
(*  - every SELECT the session executes, Session.get and Session.merge     *)
(*    included, passes through the do_orm_execute listener of              *)
(*    core/database.py; a refresh is exempt from loader criteria;          *)
(*  - refresh raises InvalidRequestError (a SQLAlchemyError) for an        *)
(*    instance that is not persistent in the session: a deleted one, or a  *)
(*    detached one that was only handed to merge;                          *)
(*  - nothing reaches the datastore before commit, and leaving the session *)
(*    block without commit discards the pending changes.                   *)
(***************************************************************************)
EXTENDS Integers, Sequences, FiniteSets, TLC

\* ------------------------------------------------------------------ bounds
MaxId == 2
MaxLogs == 3

Ids == 1..MaxId

\* --------------------------------------------------------------- values
\* A Python value: a tagged record, so that values of different types are
\* never compared by their payload.
S(s) == [k |-> "str", v |-> s]
B(b) == [k |-> "bool", v |-> b]
I(n) == [k |-> "int", v |-> n]
L(q) == [k |-> "list", v |-> q]
None == [k |-> "none", v |-> ""]

EmptyDict == [x \in {} |-> None]

Names == {"a", "Ab"}

\* What `%q%` ILIKE matches: the lower-cased substrings of each name.
ilike(name, q) ==
    LET lowered == [n \in Names |-> IF n = "a" THEN {"", "a"}
                                    ELSE {"", "a", "b", "ab"}]
        lower == [s \in {"", "a", "b", "ab", "A", "B", "Ab", "AB"} |->
                     CASE s \in {"a", "A"} -> "a"
                       [] s \in {"b", "B"} -> "b"
                       [] s \in {"ab", "Ab", "AB"} -> "ab"
                       [] OTHER -> ""]
    IN  q \in DOMAIN lower /\ lower[q] \in lowered[name]

\* int(v) of the cast table {"id": int}: the number, or "error" when Python
\* raises ValueError.
int(v) ==
    CASE v.k = "int" -> v
      [] v.k = "str" /\ v.v \in {"1", "2", "3", "4"} ->
             I(CHOOSE n \in 1..4 : <<"1", "2", "3", "4">>[n] = v.v)
      [] OTHER -> [k |-> "error", v |-> ""]

\* ------------------------------------------------------------------ state
VARIABLES
    table,         \* the entity table: id -> row
    logs,          \* the committed rows of the audit table, oldest first
    next_id,       \* the next value of the id sequence
    current_auth,  \* SecurityManager._current_auth of the running request
    last,          \* the last call or request: arguments, outcome, result
    _auth_cache,   \* SecurityManager._auth_cache: token -> (Auth, expire_time)
    _AUTH_CACHE,   \* utils._AUTH_CACHE: token -> (Auth, expire_time)
    now,           \* datetime.now().timestamp()
    requests,      \* the requests in flight: position, token, context, locals
    _cache_ttl     \* SecurityManager._cache_ttl, in seconds

NoRow == [present |-> FALSE, is_deleted |-> FALSE, name |-> ""]
Row(is_deleted, name) == [present |-> TRUE, is_deleted |-> is_deleted, name |-> name]

NoAuth == [user |-> None, token |-> "", ip_address |-> None, user_agent |-> None]

Tokens == {"T1", "T2"}
NoEntry == [present |-> FALSE, auth |-> NoAuth, expire_time |-> 0]
Entry(auth, expire_time) == [present |-> TRUE, auth |-> auth, expire_time |-> expire_time]

\* The requests served at the same time, and a request that has not arrived:
\* its context is a copy of the server's, where the identity variable has
\* its default.
MaxRequests == 2
Reqs == 1..MaxRequests
Idle ==
    [pc |-> "idle", token |-> "", ctx |-> NoAuth, entry |-> NoEntry, read |-> NoAuth,
     hit_at |-> -1, raised |-> "none"]

authvars == <<_auth_cache, _AUTH_CACHE, now, requests, _cache_ttl>>

\* -------------------------------------------------------------- statements
\* select(self.model): no execution option, no criteria.
select_model == [include_deleted |-> FALSE, where |-> {}]

\* core/utils/query_utils.py: the statement this function RETURNS.
add_include_deleted(stmt, include_deleted) ==
    IF include_deleted THEN [stmt EXCEPT !.include_deleted = TRUE] ELSE stmt

where(stmt, cond) == [stmt EXCEPT !.where = @ \cup {cond}]

\* Does row `r` with id `i` satisfy one WHERE condition?
FieldOf(i, r, field) ==
    CASE field = "id" -> I(i)
      [] field = "is_deleted" -> B(r.is_deleted)
      [] field = "name" -> S(r.name)

ModelFields == {"id", "is_deleted", "name"}
_search_fields == {"name"}

Holds(cond, i, r) ==
    CASE cond.op = "eq" -> FieldOf(i, r, cond.field) = cond.value
      [] cond.op = "in" ->
             \E n \in 1..Len(cond.value.v) : FieldOf(i, r, cond.field) = cond.value.v[n]
      [] cond.op = "is_null" -> FALSE
      [] cond.op = "search" ->
             \E f \in cond.fields : f = "name" /\ ilike(r.name, cond.value.v)

\* core/database.py _apply_soft_delete_filter + exclude_deleted_records: the
\* rows a SELECT returns when the session executes `stmt`.
_apply_soft_delete_filter(stmt, t) ==
    {i \in DOMAIN t : /\ t[i].present
                      /\ (stmt.include_deleted \/ ~t[i].is_deleted)
                      /\ \A cond \in stmt.where : Holds(cond, i, t[i])}

\* Session.get(model, id): a SELECT by primary key through the same listener.
db_get(t, item_id) ==
    _apply_soft_delete_filter(where(select_model, [op |-> "eq", field |-> "id", value |-> I(item_id)]), t)

\* ------------------------------------------------------- filter building
casts == {"id"}

Truthy(v) ==
    CASE v.k = "none" -> FALSE
      [] v.k = "bool" -> v.v
      [] v.k = "str" -> v.v # ""
      [] v.k = "int" -> v.v # 0
      [] v.k = "list" -> Len(v.v) > 0

CastOne(key, v) ==
    IF v.k = "list" THEN L([n \in 1..Len(v.v) |-> int(v.v[n])]) ELSE int(v)

CastFails(key, v) ==
    IF v.k = "list" THEN \E n \in 1..Len(v.v) : int(v.v[n]).k = "error"
    ELSE int(v).k = "error"

\* BaseRepository.__get_filter: the filters with the casts applied, or
\* "RepositoryError" when a cast raises.
__get_filter(filters) ==
    IF \E key \in DOMAIN filters : key \in casts /\ filters[key].k # "none" /\ CastFails(key, filters[key])
    THEN [ok |-> FALSE, filters |-> EmptyDict]
    ELSE [ok |-> TRUE,
          filters |-> [key \in DOMAIN filters |->
                          IF key \in casts /\ filters[key].k # "none"
                          THEN CastOne(key, filters[key]) ELSE filters[key]]]

\* The WHERE condition one filter entry adds, as a set of zero or one condition.
FilterConds(field, value) ==
    IF field = "query" /\ Truthy(value)
    THEN IF _search_fields \cap ModelFields # {}
         THEN {[op |-> "search", fields |-> _search_fields \cap ModelFields, value |-> value]}
         ELSE {}
    ELSE IF field \in ModelFields
         THEN CASE value.k = "list" -> {[op |-> "in", field |-> field, value |-> value]}
                [] value.k = "none" -> {[op |-> "is_null", field |-> field, value |-> value]}
                [] OTHER -> {[op |-> "eq", field |-> field, value |-> value]}
         ELSE {}

\* BaseRepository._build_select_stmt.  The statement add_include_deleted
\* returns is not assigned, so `stmt` goes on without the execution option.
_build_select_stmt(include_deleted, filters) ==
    LET stmt == select_model
        unassigned == add_include_deleted(stmt, include_deleted)
        processed == __get_filter(filters)
    IN  [ok |-> processed.ok,
         stmt |-> [stmt EXCEPT !.where =
                      UNION {FilterConds(f, processed.filters[f]) : f \in DOMAIN processed.filters}]]

\* ------------------------------------------------------------ call record
NoCall ==
    [op |-> "none", id |-> 0, ids |-> <<>>, include_deleted |-> FALSE,
     filters |-> EmptyDict, data |-> EmptyDict, fault |-> "none",
     outcome |-> "none", rset |-> {}, rseq |-> <<>>, total |-> 0,
     page |-> 0, per_page |-> 0, pages |-> 0, page_in |-> 0, per_page_in |-> 0,
     desc |-> FALSE,
     pre |-> [i \in Ids |-> NoRow], prelogs |-> <<>>]

\* The ids of `set` as a sequence, by id descending or ascending.
RECURSIVE Sorted(_, _)
Sorted(set, desc) ==
    IF set = {} THEN <<>>
    ELSE LET first == CHOOSE x \in set : \A y \in set : IF desc THEN x >= y ELSE x <= y
         IN  <<first>> \o Sorted(set \ {first}, desc)

Slice(q, offset, limit) ==
    [n \in 1..(IF Len(q) - offset < 0 THEN 0
               ELSE IF Len(q) - offset < limit THEN Len(q) - offset ELSE limit)
        |-> q[n + offset]]

Range(q) == {q[n] : n \in 1..Len(q)}

\* ------------------------------------------------------------------ reads
FilterInputs ==
    {EmptyDict, "name" :> S("a"), "is_deleted" :> B(TRUE), "id" :> S("x")}

ListFilterInputs == {EmptyDict, "id" :> L(<<S("1"), S("2")>>), "query" :> S("B")}

\* BaseRepository.get
get(t, item_id, include_deleted, filters) ==
    LET built == _build_select_stmt(include_deleted, filters)
        stmt == where(built.stmt, [op |-> "eq", field |-> "id", value |-> I(item_id)])
    IN  IF ~built.ok THEN [outcome |-> "RepositoryError", rset |-> {}]
        ELSE [outcome |-> "ok", rset |-> _apply_soft_delete_filter(stmt, t)]

\* BaseRepository.get_all
get_all(t, include_deleted, filters) ==
    LET built == _build_select_stmt(include_deleted, filters)
    IN  IF ~built.ok THEN [outcome |-> "RepositoryError", rset |-> {}]
        ELSE [outcome |-> "ok", rset |-> _apply_soft_delete_filter(built.stmt, t)]

\* BaseRepository.count
count(t, include_deleted, filters) ==
    LET built == _build_select_stmt(include_deleted, filters)
    IN  IF ~built.ok THEN [outcome |-> "RepositoryError", total |-> 0]
        ELSE [outcome |-> "ok",
              total |-> Cardinality(_apply_soft_delete_filter(built.stmt, t))]

\* `if per_page < 1 or per_page > 100` replaced by a clamp to the nearer end
normalize_per_page_nearest(per_page) ==
    IF per_page < 1 THEN 1 ELSE IF per_page > 100 THEN 100 ELSE per_page

\* BaseRepository.list: `if page < 1: page = 1` and
\* `if per_page < 1 or per_page > 100: per_page = 10`
normalize_page(page) == IF page < 1 THEN 1 ELSE page
normalize_per_page(per_page) == IF per_page < 1 \/ per_page > 100 THEN 10 ELSE per_page

\* BaseRepository.list
list(t, page_in, per_page_in, include_deleted, desc, filters) ==
    LET page == normalize_page(page_in)
        per_page == normalize_per_page(per_page_in)
        offset == (page - 1) * per_page
        built == _build_select_stmt(include_deleted, filters)
        rows == _apply_soft_delete_filter(built.stmt, t)
        total == Cardinality(rows)
        items == Slice(Sorted(rows, desc), offset, per_page)
    IN  IF ~built.ok
        THEN [outcome |-> "RepositoryError", rseq |-> <<>>, total |-> 0,
              page |-> page, per_page |-> per_page, pages |-> 0]
        ELSE [outcome |-> "ok", rseq |-> items, total |-> total,
              page |-> page, per_page |-> per_page,
              pages |-> (total + per_page - 1) \div per_page]

Get(item_id, include_deleted, filters) ==
    \E r \in {get(table, item_id, include_deleted, filters)} :
        /\ last' = [NoCall EXCEPT !.op = "get", !.id = item_id,
                       !.include_deleted = include_deleted, !.filters = filters,
                       !.outcome = r.outcome, !.rset = r.rset]
        /\ UNCHANGED <<table, logs, next_id, current_auth, authvars>>

GetAll(include_deleted, filters) ==
    \E r \in {get_all(table, include_deleted, filters)} :
        /\ last' = [NoCall EXCEPT !.op = "get_all",
                       !.include_deleted = include_deleted, !.filters = filters,
                       !.outcome = r.outcome, !.rset = r.rset]
        /\ UNCHANGED <<table, logs, next_id, current_auth, authvars>>

\* BaseRepository.get_many: no ORDER BY, so the datastore may return any
\* `limit` of the rows that remain after skipping `skip` of them.
GetMany(skip, limit, include_deleted, filters) ==
    \E r \in {get_all(table, include_deleted, filters)} :
    LET n == Cardinality(r.rset) - skip
        size == IF n < 0 THEN 0 ELSE IF n < limit THEN n ELSE limit
    IN  /\ \E chosen \in SUBSET r.rset :
              /\ Cardinality(chosen) = size
              /\ last' = [NoCall EXCEPT !.op = "get_many",
                             !.include_deleted = include_deleted, !.filters = filters,
                             !.outcome = r.outcome, !.rset = chosen]
        /\ UNCHANGED <<table, logs, next_id, current_auth, authvars>>

List(page, per_page, include_deleted, desc, filters) ==
    \E r \in {list(table, page, per_page, include_deleted, desc, filters)} :
        /\ last' = [NoCall EXCEPT !.op = "list",
                       !.include_deleted = include_deleted, !.filters = filters,
                       !.outcome = r.outcome, !.rseq = r.rseq, !.rset = Range(r.rseq),
                       !.total = r.total, !.page = r.page, !.per_page = r.per_page,
                       !.pages = r.pages, !.page_in = page, !.per_page_in = per_page,
                       !.desc = desc]
        /\ UNCHANGED <<table, logs, next_id, current_auth, authvars>>

Count(include_deleted, filters) ==
    \E r \in {count(table, include_deleted, filters)} :
        /\ last' = [NoCall EXCEPT !.op = "count",
                       !.include_deleted = include_deleted, !.filters = filters,
                       !.outcome = r.outcome, !.total = r.total]
        /\ UNCHANGED <<table, logs, next_id, current_auth, authvars>>

\* -------------------------------------------------------------- audit log
\* A security manager that has the attributes _add_log reads
SecurityManagerAttributes_with_request_fields ==
    {"user", "token", "ip_address", "user_agent"}

\* What the object returned by core.security_manager.auth() offers: the
\* attributes, properties and methods of class SecurityManager.
SecurityManagerAttributes ==
    {"password_hash", "oauth2_scheme", "_cache_ttl", "_auth_cache", "_current_auth",
     "user", "token", "auth_object", "set_auth", "clear_auth", "get_cached_auth",
     "set_cached_auth", "verify_password", "get_password_hash", "create_access_token",
     "get_user", "authenticate_user", "get_current_user", "get_current_user_or_none",
     "get_current_active_user", "check_permissions", "_get_user_permissions",
     "require_permissions"}

\* hasattr(user, "id") for the user of an Auth: Auth.user is a dict, and a
\* dict keeps "id" as a key, not as an attribute.
hasattr_id(user) == user.k = "object"

\* model_dump(exclude={"is_deleted", "id"}) and model_dump() of a row
dump_fields(r) == "name" :> S(r.name)
dump_all(i, r) == ("id" :> I(i)) @@ ("is_deleted" :> B(r.is_deleted)) @@ ("name" :> S(r.name))

\* BaseRepository._add_log: the entries it adds to the session, none when
\* an exception inside its try block is swallowed.
_add_log(au, action, record_id, old_data, new_data) ==
    LET user == au.user
        user_id == IF user.k # "none" /\ hasattr_id(user) THEN user.v.id ELSE None
    IN  IF {"user", "ip_address", "user_agent"} \subseteq SecurityManagerAttributes
        THEN <<[table_name |-> "entity", record_id |-> record_id, action |-> action,
                old_data |-> old_data, new_data |-> new_data, user_id |-> user_id,
                ip_address |-> au.ip_address, user_agent |-> au.user_agent]>>
        ELSE <<>>

\* ------------------------------------------------------------ the session
\* CommitAction.commit for a repository without before_/after_ hooks:
\* db.commit(), then db.refresh of each object.  `persistent` tells whether
\* every object handed to refresh is persistent in the session.  The audit
\* entries are pending objects of the same session: db.commit() flushes
\* them in the transaction of the change, and the fault "log_flush_error"
\* is their INSERT failing, which takes an entry added to the session.
\* The result: what the datastore holds afterwards and what was raised.
commit(t, lg, staged_t, staged_lg, persistent, fault) ==
    CASE fault = "cancel" ->
             [table |-> t, logs |-> lg, raised |-> "CancelledError"]
      [] fault \in {"flush_error", "commit_error"} ->
             [table |-> t, logs |-> lg, raised |-> "SQLAlchemyError"]
      [] fault = "log_flush_error" /\ staged_lg # lg ->
             [table |-> t, logs |-> lg, raised |-> "SQLAlchemyError"]
      [] fault = "refresh_error" \/ ~persistent ->
             [table |-> staged_t, logs |-> staged_lg, raised |-> "SQLAlchemyError"]
      [] OTHER ->
             [table |-> staged_t, logs |-> staged_lg, raised |-> "none"]

\* `except SQLAlchemyError: rollback; _handle_db_error`: the outcome of the
\* call for what was raised inside the session block.
_handle_db_error(raised, ok) ==
    CASE raised = "none" -> ok
      [] raised = "CancelledError" -> "Cancelled"
      [] OTHER -> "RepositoryError"

Effect(c, ok, nid, rset) ==
    [table |-> c.table, logs |-> c.logs, next_id |-> nid,
     outcome |-> _handle_db_error(c.raised, ok),
     rset |-> IF c.raised = "none" THEN rset ELSE {}]

NoEffect(t, lg, nid, outcome) ==
    [table |-> t, logs |-> lg, next_id |-> nid, outcome |-> outcome, rset |-> {}]

\* self.model(**obj_in) that sets the defaults and none of the fields given
NewRow_defaults_only(obj_in) == Row(FALSE, "")

\* self.model(**obj_in): the row of a new instance
NewRow(obj_in) ==
    Row(IF "is_deleted" \in DOMAIN obj_in THEN obj_in["is_deleted"].v ELSE FALSE,
        obj_in["name"].v)

\* ------------------------------------------------------------- mutations
\* Rows and log entries staged by adding `items` (a sequence of dicts) one
\* after the other, ids drawn from the sequence starting at `nid`.
StageCreates(t, au, items, nid) ==
    [table |-> [i \in Ids |-> IF i \in nid..(nid + Len(items) - 1)
                               THEN NewRow(items[i - nid + 1]) ELSE t[i]],
     entries |-> [n \in 1..Len(items) |->
                     _add_log(au, "create", nid + n - 1, None,
                              dump_fields(NewRow(items[n])))]]

RECURSIVE Flatten(_)
Flatten(qq) == IF qq = <<>> THEN <<>> ELSE Head(qq) \o Flatten(Tail(qq))

\* BaseRepository.create_many; create is create_many of one object, committed
\* the same way.  A flush raises IntegrityError when a drawn id is taken.
create_many(t, lg, nid, au, objects_in, fault) ==
    LET st == StageCreates(t, au, objects_in, nid)
        taken == \E i \in Ids \cap nid..(nid + Len(objects_in) - 1) : t[i].present
        c == commit(t, lg, st.table, lg \o Flatten(st.entries), TRUE,
                    IF taken THEN "flush_error" ELSE fault)
    IN  Effect(c, "ok", nid + Len(objects_in), nid..(nid + Len(objects_in) - 1))

\* BaseRepository.create
create(t, lg, nid, au, obj_in, fault) == create_many(t, lg, nid, au, <<obj_in>>, fault)

\* BaseRepository.bulk_create: the same steps with db.commit() and the
\* refreshes inline.
bulk_create(t, lg, nid, au, items, fault) == create_many(t, lg, nid, au, items, fault)

\* The registered update_<field> hooks of the repository: none in the base.
update_hooks == {}

\* The loop of update over update_data: the row after the assignments.
ApplyUpdate(r, update_data) ==
    [r EXCEPT
        !.name = IF "name" \in DOMAIN update_data /\ update_data["name"].k # "none"
                     /\ "name" \notin update_hooks
                 THEN update_data["name"].v ELSE @,
        !.is_deleted = IF "is_deleted" \in DOMAIN update_data
                           /\ update_data["is_deleted"].k # "none"
                           /\ "is_deleted" \notin update_hooks
                       THEN update_data["is_deleted"].v ELSE @]

Without(d, key) == [x \in DOMAIN d \ {key} |-> d[x]]

\* The roles that exist.
RoleIds == {1, 2}

\* UserRepository.update_roles that also runs when roles are not given
update_roles_always(db_obj, update_data) ==
    IF "roles" \in DOMAIN update_data /\ update_data["roles"].k # "none"
    THEN [db_obj EXCEPT !.roles = Range(update_data["roles"].v) \cap RoleIds]
    ELSE [db_obj EXCEPT !.roles = {}]

\* UserRepository.update_roles as the loop of update calls it: for a value
\* of "roles" that is not None, the roles that the select by id finds.
update_roles(db_obj, update_data) ==
    IF "roles" \in DOMAIN update_data /\ update_data["roles"].k # "none"
    THEN [db_obj EXCEPT !.roles = Range(update_data["roles"].v) \cap RoleIds]
    ELSE db_obj

\* The loop of update in UserRepository: update_roles instead of the
\* assignment for "roles", the assignment for the other fields.
UserApplyUpdate(r, update_data) == ApplyUpdate(update_roles(r, update_data), update_data)

\* BaseRepository.update as `repository` inherits it: its loop over
\* update_data finds the update_<field> methods of that repository.
update_of(repository, t, lg, nid, au, item_id, obj_in, fault) ==
    LET update_data == Without(obj_in, "id")
        found == db_get(t, item_id)
        db_obj == t[item_id]
        entries == _add_log(au, "update", item_id, dump_fields(db_obj),
                            update_data @@ dump_fields(db_obj))
        staged == [t EXCEPT ![item_id] =
                      IF repository = "UserRepository"
                      THEN UserApplyUpdate(db_obj, update_data)
                      ELSE ApplyUpdate(db_obj, update_data)]
    IN  IF DOMAIN update_data = {} THEN NoEffect(t, lg, nid, "RepositoryError")
        ELSE IF fault = "cancel" THEN NoEffect(t, lg, nid, "Cancelled")
        ELSE IF found = {} THEN NoEffect(t, lg, nid, "None")
        ELSE Effect(commit(t, lg, staged, lg \o entries, TRUE, fault), "ok", nid, {item_id})

\* BaseRepository.update
update(t, lg, nid, au, item_id, obj_in, fault) ==
    update_of("BaseRepository", t, lg, nid, au, item_id, obj_in, fault)

\* BaseRepository.soft_delete
soft_delete(t, lg, nid, au, item_id, fault) ==
    LET found == db_get(t, item_id)
        entries == _add_log(au, "delete", item_id,
                            "is_deleted" :> B(FALSE), "is_deleted" :> B(TRUE))
        staged == [t EXCEPT ![item_id].is_deleted = TRUE]
    IN  IF fault = "cancel" THEN NoEffect(t, lg, nid, "Cancelled")
        ELSE IF found = {} THEN NoEffect(t, lg, nid, "False")
        ELSE Effect(commit(t, lg, staged, lg \o entries, TRUE, fault), "True", nid, {item_id})

\* BaseRepository.restore
restore(t, lg, nid, au, item_id, fault) ==
    LET found == db_get(t, item_id)
        entries == _add_log(au, "restore", item_id,
                            "is_deleted" :> B(TRUE), "is_deleted" :> B(FALSE))
        staged == [t EXCEPT ![item_id].is_deleted = FALSE]
    IN  IF fault = "cancel" THEN NoEffect(t, lg, nid, "Cancelled")
        ELSE IF found = {} THEN NoEffect(t, lg, nid, "False")
        ELSE Effect(commit(t, lg, staged, lg \o entries, TRUE, fault), "True", nid, {item_id})

\* BaseRepository.force_delete: the deleted instance is handed to commit,
\* whose refresh finds it no longer persistent.
force_delete(t, lg, nid, au, item_id, fault) ==
    LET found == db_get(t, item_id)
        entries == _add_log(au, "force_delete", item_id, dump_all(item_id, t[item_id]), None)
        staged == [t EXCEPT ![item_id] = NoRow]
    IN  IF fault = "cancel" THEN NoEffect(t, lg, nid, "Cancelled")
        ELSE IF found = {} THEN NoEffect(t, lg, nid, "False")
        ELSE Effect(commit(t, lg, staged, lg \o entries, FALSE, fault), "True", nid, {item_id})

\* BaseRepository.force_delete_many
force_delete_many(t, lg, nid, au, item_ids, fault) ==
    LET objects == _apply_soft_delete_filter(
                       where(select_model, [op |-> "in", field |-> "id",
                                            value |-> L([n \in 1..Len(item_ids) |-> I(item_ids[n])])]), t)
        order == Sorted(objects, FALSE)
        entries == [n \in 1..Len(order) |->
                       _add_log(au, "force_delete", order[n], dump_all(order[n], t[order[n]]), None)]
        staged == [i \in Ids |-> IF i \in objects THEN NoRow ELSE t[i]]
    IN  IF fault = "cancel" THEN NoEffect(t, lg, nid, "Cancelled")
        ELSE Effect(commit(t, lg, staged, lg \o Flatten(entries), objects = {}, fault),
                    "True", nid, objects)

\* BaseRepository.bulk_delete
bulk_delete(t, lg, nid, au, ids, fault) ==
    LET objects == _apply_soft_delete_filter(
                       where(select_model, [op |-> "in", field |-> "id",
                                            value |-> L([n \in 1..Len(ids) |-> I(ids[n])])]), t)
        order == Sorted(objects, FALSE)
        new_deleted(i) == ~t[i].is_deleted
        old_deleted(i) == ~new_deleted(i)
        entries == [n \in 1..Len(order) |->
                       _add_log(au, IF new_deleted(order[n]) THEN "delete" ELSE "restore",
                                order[n],
                                "is_deleted" :> B(old_deleted(order[n])),
                                "is_deleted" :> B(new_deleted(order[n])))]
        staged == [i \in Ids |-> IF i \in objects
                                 THEN [t[i] EXCEPT !.is_deleted = new_deleted(i)] ELSE t[i]]
    IN  IF fault = "cancel" THEN NoEffect(t, lg, nid, "Cancelled")
        ELSE Effect(commit(t, lg, staged, lg \o Flatten(entries), TRUE, fault),
                    "True", nid, objects)

\* BaseRepository.bulk_update.  merge(item) loads the row by primary key:
\* a visible row takes the item's state, a missing one is inserted, and a
\* soft-deleted one is not found, so the insert breaks the primary key when
\* it is flushed.  The refresh is given the items, not the merged instances.
bulk_update(t, lg, nid, au, items, fault) ==
    LET ids == {items[n].id : n \in 1..Len(items)}
        item(i) == items[CHOOSE n \in 1..Len(items) : items[n].id = i]
        clash == \E i \in ids : t[i].present /\ t[i].is_deleted
        entries == [n \in 1..Len(items) |->
                       _add_log(au, "update", items[n].id, None,
                                dump_fields(Row(items[n].is_deleted, items[n].name)))]
        staged == [i \in Ids |-> IF i \in ids
                                 THEN Row(item(i).is_deleted, item(i).name) ELSE t[i]]
    IN  IF fault = "cancel" THEN NoEffect(t, lg, nid, "Cancelled")
        ELSE Effect(commit(t, lg, staged, lg \o Flatten(entries), items = <<>>,
                           IF clash THEN "flush_error" ELSE fault),
                    "ok", nid, ids)

\* ------------------------------------------------------ repository actions
Faults == {"none", "commit_error", "refresh_error", "cancel", "log_flush_error"}

CreateInputs ==
    {"name" :> S("a"), "name" :> S("Ab"), ("name" :> S("a")) @@ ("is_deleted" :> B(TRUE))}

UpdateInputs ==
    {"id" :> I(2), "name" :> S("Ab"), ("id" :> I(2)) @@ ("name" :> None),
     "is_deleted" :> B(TRUE)}

IdLists == {<<>>, <<1>>, <<2, 1>>}

ItemLists ==
    {<<>>, <<[id |-> 1, is_deleted |-> FALSE, name |-> "Ab"]>>,
     <<[id |-> 2, is_deleted |-> FALSE, name |-> "a"],
       [id |-> 1, is_deleted |-> TRUE, name |-> "a"]>>}

\* One mutating call: the datastore takes the effect, `last` keeps the call,
\* its outcome and the datastore as it was before.
Mutate(op, item_id, ids, data, fault, effect) ==
    \E eff \in {effect} :
    /\ eff.next_id <= MaxId + 1
    /\ Len(eff.logs) <= MaxLogs
    /\ table' = eff.table
    /\ logs' = eff.logs
    /\ next_id' = eff.next_id
    /\ last' = [NoCall EXCEPT !.op = op, !.id = item_id, !.ids = ids, !.data = data,
                   !.fault = fault, !.outcome = eff.outcome, !.rset = eff.rset,
                   !.pre = table, !.prelogs = logs]
    /\ UNCHANGED <<current_auth, authvars>>

Create(obj_in, fault) ==
    Mutate("create", 0, <<>>, obj_in, fault,
           create(table, logs, next_id, current_auth, obj_in, fault))

CreateMany(objects_in, fault) ==
    Mutate("create_many", 0, <<>>, EmptyDict, fault,
           create_many(table, logs, next_id, current_auth, objects_in, fault))

BulkCreate(items, fault) ==
    Mutate("bulk_create", 0, <<>>, EmptyDict, fault,
           bulk_create(table, logs, next_id, current_auth, items, fault))

Update(item_id, obj_in, fault) ==
    Mutate("update", item_id, <<>>, obj_in, fault,
           update(table, logs, next_id, current_auth, item_id, obj_in, fault))

SoftDelete(item_id, fault) ==
    Mutate("soft_delete", item_id, <<>>, EmptyDict, fault,
           soft_delete(table, logs, next_id, current_auth, item_id, fault))

Restore(item_id, fault) ==
    Mutate("restore", item_id, <<>>, EmptyDict, fault,
           restore(table, logs, next_id, current_auth, item_id, fault))

ForceDelete(item_id, fault) ==
    Mutate("force_delete", item_id, <<>>, EmptyDict, fault,
           force_delete(table, logs, next_id, current_auth, item_id, fault))

ForceDeleteMany(item_ids, fault) ==
    Mutate("force_delete_many", 0, item_ids, EmptyDict, fault,
           force_delete_many(table, logs, next_id, current_auth, item_ids, fault))

BulkDelete(ids, fault) ==
    Mutate("bulk_delete", 0, ids, EmptyDict, fault,
           bulk_delete(table, logs, next_id, current_auth, ids, fault))

BulkUpdate(items, fault) ==
    Mutate("bulk_update", 0, [n \in 1..Len(items) |-> items[n].id], EmptyDict, fault,
           bulk_update(table, logs, next_id, current_auth, items, fault))

vars == <<table, logs, next_id, current_auth, last, _auth_cache, _AUTH_CACHE, now, requests,
          _cache_ttl>>

\* The caches of a process that has served no request, at time 0.
InitCaches ==
    /\ _auth_cache = [tk \in Tokens |-> NoEntry]
    /\ _AUTH_CACHE = [tk \in Tokens |-> NoEntry]
    /\ now = 0
    /\ requests = [r \in Reqs |-> Idle]
    /\ _cache_ttl = 60 * 60

InitRepo ==
    /\ table = [i \in Ids |-> NoRow]
    /\ logs = <<>>
    /\ next_id = 1
    /\ current_auth = NoAuth
    /\ last = NoCall
    /\ InitCaches

NextRepo ==
    \/ \E obj_in \in CreateInputs, fault \in Faults : Create(obj_in, fault)
    \/ \E fault \in Faults : CreateMany(<<"name" :> S("Ab"), "name" :> S("a")>>, fault)
    \/ \E fault \in Faults : BulkCreate(<<"name" :> S("a")>>, fault)
    \/ \E i \in Ids, obj_in \in UpdateInputs, fault \in Faults : Update(i, obj_in, fault)
    \/ \E i \in Ids, fault \in Faults : SoftDelete(i, fault)
    \/ \E i \in Ids, fault \in Faults : Restore(i, fault)
    \/ \E i \in Ids, fault \in Faults : ForceDelete(i, fault)
    \/ \E ids \in IdLists, fault \in Faults : ForceDeleteMany(ids, fault)
    \/ \E ids \in IdLists, fault \in Faults : BulkDelete(ids, fault)
    \/ \E items \in ItemLists, fault \in Faults : BulkUpdate(items, fault)
    \/ \E i \in Ids, d \in BOOLEAN, f \in FilterInputs : Get(i, d, f)
    \/ \E d \in BOOLEAN, f \in FilterInputs : GetAll(d, f)
    \/ \E skip \in 0..1, d \in BOOLEAN, f \in ListFilterInputs : GetMany(skip, 1, d, f)
    \/ \E page \in {0, 2}, per_page \in 0..1, d \in BOOLEAN, f \in ListFilterInputs :
           List(page, per_page, d, page = 0, f)
    \/ \E d \in BOOLEAN, f \in FilterInputs : Count(d, f)

SpecRepo == InitRepo /\ [][NextRepo]_vars

\* ----------------------------------------------------- CommitAction.commit
\* The before_<action> and after_<action> methods a repository may define
\* for create, and the frame of a create call while it runs: its position,
\* what it staged in the session and the events so far.
Hooks == {"before_create", "after_create"}

NoFrame ==
    [op |-> "none", pc |-> "idle", data |-> EmptyDict, hooks |-> {}, raising |-> {},
     fault |-> "none", events |-> <<>>, staged |-> <<>>, staged_logs |-> <<>>,
     outcome |-> "none", pre |-> <<>>, prelogs |-> <<>>]

\* `if hasattr(self, before_action): await ...` where a raising hook is
\* taken to have returned
before_hook_swallowing(frame) ==
    IF "before_create" \in frame.hooks
    THEN [frame EXCEPT !.events = Append(@, IF "before_create" \in frame.raising
                                            THEN "before_create raised"
                                            ELSE "before_create"),
                       !.pc = "commit"]
    ELSE [frame EXCEPT !.pc = "commit"]

\* `if hasattr(self, before_action): await getattr(self, before_action)(db, obj)`:
\* what the hook raises leaves commit and, not being an SQLAlchemyError, the
\* session block of create.
before_hook(frame) ==
    IF "before_create" \in frame.hooks
    THEN IF "before_create" \in frame.raising
         THEN [frame EXCEPT !.events = Append(@, "before_create raised"),
                            !.pc = "done", !.outcome = "HookError"]
         ELSE [frame EXCEPT !.events = Append(@, "before_create"), !.pc = "commit"]
    ELSE [frame EXCEPT !.pc = "commit"]

\* `if hasattr(self, after_action): await getattr(self, after_action)(db, obj)`
after_hook(frame) ==
    IF "after_create" \in frame.hooks
    THEN IF "after_create" \in frame.raising
         THEN [frame EXCEPT !.events = Append(@, "after_create raised"),
                            !.pc = "done", !.outcome = "HookError"]
         ELSE [frame EXCEPT !.events = Append(@, "after_create"),
                            !.pc = "done", !.outcome = "ok"]
    ELSE [frame EXCEPT !.pc = "done", !.outcome = "ok"]

\* BaseRepository.create up to its call of commit: the object is added and
\* flushed, the audit entry is handed to _add_log.
CallCreate(obj_in, hooks, raising, fault) ==
    /\ last.pc \in {"idle", "done"}
    /\ next_id <= MaxId
    /\ \E st \in {StageCreates(table, current_auth, <<obj_in>>, next_id)} :
           last' = [NoFrame EXCEPT !.op = "create", !.pc = "before", !.data = obj_in,
                       !.hooks = hooks, !.raising = raising, !.fault = fault,
                       !.staged = st.table, !.staged_logs = logs \o Flatten(st.entries),
                       !.pre = table, !.prelogs = logs]
    /\ next_id' = next_id + 1
    /\ UNCHANGED <<table, logs, current_auth, authvars>>

BeforeHook ==
    /\ last.pc = "before"
    /\ last' = before_hook(last)
    /\ UNCHANGED <<table, logs, next_id, current_auth, authvars>>

\* await db.commit(): the staged rows and entries are stored, or the commit
\* fails and create rolls back.
DbCommit ==
    /\ last.pc = "commit"
    /\ IF last.fault = "commit_error"
       THEN /\ last' = [last EXCEPT !.pc = "done",
                            !.outcome = _handle_db_error("SQLAlchemyError", "ok")]
            /\ UNCHANGED <<table, logs>>
       ELSE /\ table' = last.staged
            /\ logs' = last.staged_logs
            /\ last' = [last EXCEPT !.events = Append(@, "commit"), !.pc = "refresh"]
    /\ UNCHANGED <<next_id, current_auth, authvars>>

\* await db.refresh(obj)
DbRefresh ==
    /\ last.pc = "refresh"
    /\ last' = IF last.fault = "refresh_error"
               THEN [last EXCEPT !.pc = "done",
                        !.outcome = _handle_db_error("SQLAlchemyError", "ok")]
               ELSE [last EXCEPT !.events = Append(@, "refresh"), !.pc = "after"]
    /\ UNCHANGED <<table, logs, next_id, current_auth, authvars>>

AfterHook ==
    /\ last.pc = "after"
    /\ last' = after_hook(last)
    /\ UNCHANGED <<table, logs, next_id, current_auth, authvars>>

InitCommit ==
    /\ table = [i \in Ids |-> NoRow]
    /\ logs = <<>>
    /\ next_id = 1
    /\ current_auth = NoAuth
    /\ last = NoFrame
    /\ InitCaches

NextCommit ==
    \/ \E obj_in \in CreateInputs, hooks \in SUBSET Hooks,
          fault \in {"none", "commit_error", "refresh_error"} :
           \E raising \in SUBSET hooks : CallCreate(obj_in, hooks, raising, fault)
    \/ BeforeHook
    \/ DbCommit
    \/ DbRefresh
    \/ AfterHook

SpecCommit == InitCommit /\ [][NextCommit]_vars

\* ---------------------------------------------------------- UserRepository
\* The rows of users carry the ids of their roles; the roles that exist.
NoUserRow == [present |-> FALSE, is_deleted |-> FALSE, name |-> "", roles |-> {}]
UserRow(is_deleted, name, roles) ==
    [present |-> TRUE, is_deleted |-> is_deleted, name |-> name, roles |-> roles]

UserIds == {1, 2}

\* UserRepository.update
user_update(t, lg, nid, au, item_id, obj_in, fault) ==
    update_of("UserRepository", t, lg, nid, au, item_id, obj_in, fault)

UserUpdate(item_id, obj_in, fault) ==
    Mutate("update", item_id, <<>>, obj_in, fault,
           user_update(table, logs, next_id, current_auth, item_id, obj_in, fault))

UserRows ==
    {NoUserRow} \cup {UserRow(d, "a", roles) : d \in BOOLEAN, roles \in {{}, {1, 2}}}

NameInputs == {EmptyDict, "name" :> None, "name" :> S("Ab")}
RolesInputs == {EmptyDict, "roles" :> None, "roles" :> L(<<2>>), "roles" :> L(<<1, 3>>)}
IdInputs == {EmptyDict, "id" :> I(2)}
UserUpdateInputs == {n @@ r @@ i : n \in NameInputs, r \in RolesInputs, i \in IdInputs}

InitUsers ==
    /\ table \in [UserIds -> UserRows]
    /\ logs = <<>>
    /\ next_id = MaxId + 1
    /\ current_auth = NoAuth
    /\ last = NoCall
    /\ InitCaches

NextUsers ==
    \E item_id \in UserIds, obj_in \in UserUpdateInputs,
       fault \in {"none", "commit_error", "refresh_error"} :
        UserUpdate(item_id, obj_in, fault)

SpecUsers == InitUsers /\ [][NextUsers]_vars

\* ------------------------------------------------------------ permissions
MaxPerms == 2

Resources == {"invoices", "orders"}
PermissionAction == {"read", "delete"}
PermScopes == {None, S("billing")}
RequiredScopes == {None, S("billing"), S("hr")}

\* The permission dicts an identity may carry.
AllPerms == [resource : Resources, action : PermissionAction, app_name : PermScopes]

\* dict.get(key, default)
dict_get(d, key, default) == IF key \in DOMAIN d THEN d[key] ELSE default

UserDict(is_superuser, perms) ==
    [k |-> "dict", v |-> [id |-> 1, is_superuser |-> is_superuser, permissions |-> perms]]

\* The Auth objects a request may run under: no identity, a user dict
\* without keys, and users with at most MaxPerms permissions.
AuthInputs ==
    {NoAuth} \cup
    {[user |-> u, token |-> "T1", ip_address |-> S("10.0.0.1"), user_agent |-> S("ua")] :
        u \in {[k |-> "dict", v |-> EmptyDict]} \cup
              {UserDict(su, ps) : su \in BOOLEAN,
                                  ps \in {x \in SUBSET AllPerms : Cardinality(x) <= MaxPerms}}}

\* bool(user) of `if not user`
TruthyUser(user) == user.k # "none" /\ DOMAIN user.v # {}

\* SecurityManager._get_user_permissions
_get_user_permissions(user, resource, app_name) ==
    LET perms == dict_get(user.v, "permissions", {})
    IN  {perm.action : perm \in {q \in perms :
            q.resource = resource /\ (app_name = None \/ q.app_name = app_name)}}

\* SecurityManager.check_permissions without the superuser branch
check_permissions_no_superuser(au, required_actions, resource, app_name) ==
    LET user == au.user
    IN  IF ~TruthyUser(user) THEN FALSE
        ELSE required_actions \subseteq _get_user_permissions(user, resource, app_name)

\* SecurityManager.check_permissions
check_permissions(au, required_actions, resource, app_name) ==
    LET user == au.user
    IN  IF ~TruthyUser(user) THEN FALSE
        ELSE IF dict_get(user.v, "is_superuser", FALSE) THEN TRUE
        ELSE required_actions \subseteq _get_user_permissions(user, resource, app_name)

\* The wrapper of SecurityManager.require_permissions with the 401 check left out
sm_wrapper_no_401(au, need_auth, required_actions, resource, app_name) ==
    IF ~need_auth THEN "call"
    ELSE IF ~check_permissions(au, required_actions, resource, app_name)
              /\ au.user # None THEN "403"
    ELSE "call"

\* SecurityManager.require_permissions: what the wrapper around the handler
\* does with a request: raise 401, raise 403, or call the handler.
sm_wrapper(au, need_auth, required_actions, resource, app_name) ==
    IF ~need_auth THEN "call"
    ELSE IF au.user = None THEN "401"
    ELSE IF ~check_permissions(au, required_actions, resource, app_name) THEN "403"
    ELSE "call"

\* core/security.py require_permissions._user_permissions_set
_user_permissions_set(user, resource_name, app_name) ==
    LET perms == dict_get(user.v, "permissions", {})
    IN  {perm.action : perm \in {q \in perms :
            q.resource = resource_name /\ (app_name = None \/ q.app_name = app_name)}}

\* core/security.py require_permissions: the wrapper
security_wrapper(au, need_auth, required_actions, resource, app_name) ==
    LET user == au.user
    IN  IF ~need_auth THEN "call"
        ELSE IF user = None THEN "401"
        ELSE IF dict_get(user.v, "is_superuser", FALSE) THEN "call"
        ELSE IF ~(required_actions \subseteq _user_permissions_set(user, resource, app_name))
             THEN "403"
        ELSE "call"

\* The permission test with the scopes compared the other way round: a
\* permission without scope matches every required scope.
middleware_user_permissions_set_global(user, resource_name, app_name) ==
    LET perms == dict_get(user.v, "permissions", {})
    IN  {perm.action : perm \in {q \in perms :
            /\ q.resource # ""
            /\ q.resource = resource_name
            /\ (q.app_name = None \/ q.app_name = app_name)}}

\* The permission test without the scope comparison
middleware_user_permissions_set_any_scope(user, resource_name, app_name) ==
    LET perms == dict_get(user.v, "permissions", {})
    IN  {perm.action : perm \in {q \in perms :
            q.resource # "" /\ q.resource = resource_name}}

\* services/auth_service/middlewares/require_permissions.py _user_permissions_set
middleware_user_permissions_set(user, resource_name, app_name) ==
    LET perms == dict_get(user.v, "permissions", {})
    IN  {perm.action : perm \in {q \in perms :
            /\ q.resource # ""
            /\ q.resource = resource_name
            /\ (app_name = None \/ q.app_name = app_name)}}

\* services/auth_service/middlewares/require_permissions.py: the wrapper
middleware_wrapper(au, need_auth, required_actions, resource, app_name) ==
    LET user == au.user
    IN  IF ~need_auth THEN "call"
        ELSE IF user = None THEN "401"
        ELSE IF dict_get(user.v, "is_superuser", FALSE) THEN "call"
        ELSE IF ~(required_actions \subseteq
                      middleware_user_permissions_set(user, resource, app_name))
             THEN "403"
        ELSE "call"

\* ------------------------------------------------------- guarded endpoints
NoRequest ==
    [op |-> "none", enforcer |-> "", need_auth |-> TRUE, router_need_auth |-> TRUE,
     required_actions |-> {}, resource |-> "", app_name |-> None, path |-> "",
     outcome |-> "none", handler_calls |-> 0,
     pre |-> [i \in Ids |-> NoRow], prelogs |-> <<>>]

Enforcers == {"security_manager", "security", "middleware"}

require_permissions(enforcer, au, need_auth, required_actions, resource, app_name) ==
    CASE enforcer = "security_manager" ->
             sm_wrapper(au, need_auth, required_actions, resource, app_name)
      [] enforcer = "security" ->
             security_wrapper(au, need_auth, required_actions, resource, app_name)
      [] enforcer = "middleware" ->
             middleware_wrapper(au, need_auth, required_actions, resource, app_name)

\* A handler decorated with require_permissions is called under the identity
\* of the request; the handler creates an entity through the repository.
Endpoint(enforcer, need_auth, required_actions, resource, app_name) ==
    LET d == require_permissions(enforcer, current_auth, need_auth,
                                 required_actions, resource, app_name)
        handled == IF d = "call"
                   THEN create(table, logs, next_id, current_auth, "name" :> S("a"), "none")
                   ELSE NoEffect(table, logs, next_id, d)
    IN  \E eff \in {handled} :
        /\ eff.next_id <= MaxId + 1
        /\ Len(eff.logs) <= MaxLogs
        /\ table' = eff.table
        /\ logs' = eff.logs
        /\ next_id' = eff.next_id
        /\ last' = [NoRequest EXCEPT !.op = "endpoint", !.enforcer = enforcer,
                       !.need_auth = need_auth, !.required_actions = required_actions,
                       !.resource = resource, !.app_name = app_name, !.outcome = d,
                       !.handler_calls = IF d = "call" THEN 1 ELSE 0,
                       !.pre = table, !.prelogs = logs]
        /\ UNCHANGED <<current_auth, authvars>>

\* The routes of CRUDApi the model follows: @add_route(path, method, action,
\* need_auth), need_auth None when the decorator leaves it out.
Routes ==
    {[path |-> "/{item_id}/", action |-> "delete", need_auth |-> None],
     [path |-> "/model/fields", action |-> "read", need_auth |-> B(FALSE)],
     [path |-> "/model/form-config", action |-> "read", need_auth |-> B(FALSE)],
     [path |-> "/enum/{enum_name}/", action |-> "read", need_auth |-> B(FALSE)]}

\* utils.get_current_active_user, the dependency BaseRouter.__init__ puts on
\* the whole router when _need_auth is set: TRUE when it raises 401.
get_current_active_user(au) == au.user = None

\* BaseRouter._register_routes: the need_auth the route is wrapped with
route_need_auth(route, _need_auth) ==
    IF route.need_auth # None THEN route.need_auth.v ELSE _need_auth

\* What a request to a route of a BaseRouter meets before the handler: the
\* dependencies of the router, then the wrapper of the route.
router_dispatch(au, _need_auth, route, _resource_name, _app_name) ==
    IF _need_auth /\ get_current_active_user(au) THEN "401"
    ELSE middleware_wrapper(au, route_need_auth(route, _need_auth),
                            {route.action}, _resource_name, _app_name)

\* A request to a route of a CRUDApi router.  The handler of DELETE
\* /{item_id}/ soft-deletes entity 1; the metadata handlers change nothing.
RouterRequest(_need_auth, route, _app_name) ==
    LET d == router_dispatch(current_auth, _need_auth, route, "invoices", _app_name)
        handled == IF d = "call" /\ route.action = "delete"
                   THEN soft_delete(table, logs, next_id, current_auth, 1, "none")
                   ELSE NoEffect(table, logs, next_id, d)
    IN  \E eff \in {handled} :
        /\ Len(eff.logs) <= MaxLogs
        /\ table' = eff.table
        /\ logs' = eff.logs
        /\ next_id' = eff.next_id
        /\ last' = [NoRequest EXCEPT !.op = "route", !.enforcer = "middleware",
                       !.need_auth = route_need_auth(route, _need_auth),
                       !.router_need_auth = _need_auth,
                       !.required_actions = {route.action},
                       !.resource = "invoices", !.app_name = _app_name,
                       !.path = route.path, !.outcome = d,
                       !.handler_calls = IF d = "call" THEN 1 ELSE 0,
                       !.pre = table, !.prelogs = logs]
        /\ UNCHANGED <<current_auth, authvars>>

RequiredSets == SUBSET PermissionAction

InitAccess ==
    /\ table = [i \in Ids |-> NoRow]
    /\ logs = <<>>
    /\ next_id = 1
    /\ current_auth \in AuthInputs
    /\ last = NoRequest
    /\ InitCaches

NextAccess ==
    \/ \E e \in Enforcers, r \in RequiredSets, sc \in RequiredScopes :
           Endpoint(e, TRUE, r, "invoices", sc)
    \/ \E e \in Enforcers : Endpoint(e, FALSE, {"delete"}, "invoices", None)
    \/ \E b \in BOOLEAN, route \in Routes, sc \in {None, S("billing")} :
           RouterRequest(b, route, sc)

SpecAccess == InitAccess /\ [][NextAccess]_vars

\* ---------------------------------------------------------- identity cache
ClockStep == 1800
MaxNow == 5400

\* SecurityManager.get_cached_auth with the expiry compared by >=
get_cached_auth_inclusive(cache, token, t) ==
    LET entry == cache[token]
    IN  IF entry.present
        THEN IF entry.expire_time >= t
             THEN [hit |-> TRUE, auth |-> entry.auth, cache |-> cache]
             ELSE [hit |-> FALSE, auth |-> NoAuth,
                   cache |-> [cache EXCEPT ![token] = NoEntry]]
        ELSE [hit |-> FALSE, auth |-> NoAuth, cache |-> cache]

\* SecurityManager.get_cached_auth: the Auth it returns (hit) or None, and
\* the cache it leaves.
get_cached_auth(cache, token, t) ==
    LET entry == cache[token]
    IN  IF entry.present
        THEN IF entry.expire_time > t
             THEN [hit |-> TRUE, auth |-> entry.auth, cache |-> cache]
             ELSE [hit |-> FALSE, auth |-> NoAuth,
                   cache |-> [cache EXCEPT ![token] = NoEntry]]
        ELSE [hit |-> FALSE, auth |-> NoAuth, cache |-> cache]

\* SecurityManager.set_cached_auth without the time to live
set_cached_auth_no_ttl(cache, token, auth, t) ==
    [cache EXCEPT ![token] = Entry(auth, t)]

\* SecurityManager.set_cached_auth adding the magnitude of the time to live
set_cached_auth_magnitude(cache, token, auth, t) ==
    [cache EXCEPT ![token] =
        Entry(auth, t + (IF _cache_ttl < 0 THEN -_cache_ttl ELSE _cache_ttl))]

\* SecurityManager.set_cached_auth
set_cached_auth(cache, token, auth, t) ==
    [cache EXCEPT ![token] = Entry(auth, t + _cache_ttl)]

\* utils._get_cached_auth
_get_cached_auth(cache, token, t) ==
    LET entry == cache[token]
    IN  IF entry.present
        THEN IF entry.expire_time > t
             THEN [hit |-> TRUE, auth |-> entry.auth, cache |-> cache]
             ELSE [hit |-> FALSE, auth |-> NoAuth,
                   cache |-> [cache EXCEPT ![token] = NoEntry]]
        ELSE [hit |-> FALSE, auth |-> NoAuth, cache |-> cache]

\* The time to live that utils and core.security declare, in seconds
_CACHE_TTL == 3600

\* utils._set_cached_auth: the entry expires at the time it is stored.
_set_cached_auth(cache, token, auth, t) ==
    [cache EXCEPT ![token] = Entry(auth, t)]

\* What jwt.decode makes of the token, and what get_user finds: the user as
\* a dict (a get_user that returns one), as a model instance (the query of
\* the default get_user), or nothing.
Decodes == {"InvalidTokenError", "no_sub", "ok"}

UsersOf(token) ==
    IF token = "T1"
    THEN {UserDict(FALSE, {}),
          UserDict(FALSE, {[resource |-> "invoices", action |-> "read", app_name |-> None]})}
    ELSE {UserDict(TRUE, {})}

UserObject == [k |-> "object", v |-> [id |-> 1]]

Lookups(token) == {None, UserObject} \cup UsersOf(token)

\* The User instance that the default get_user loads, with its own
\* permissions, those of its roles and those of the roles of its groups.
Perm(resource, action) == [resource |-> resource, action |-> action, app_name |-> None]

OrmUser(direct, via_roles, via_groups) ==
    [k |-> "object",
     v |-> [id |-> 1, is_superuser |-> FALSE, permissions |-> direct,
            role_permissions |-> via_roles, group_role_permissions |-> via_groups]]

OrmUsers ==
    {OrmUser({}, {}, {}),
     OrmUser({Perm("invoices", "read")}, {Perm("invoices", "delete")},
             {Perm("orders", "read")})}

\* The SELECT of utils.get_current_user_or_none: the permissions of the
\* user, of the user's roles and of the roles of the user's groups.
effective_permissions(user) ==
    user.v.permissions \cup user.v.role_permissions \cup user.v.group_role_permissions

\* The dict that utils.get_current_user_or_none puts into Auth.user
snapshot(user) == UserDict(user.v.is_superuser, effective_permissions(user))

\* Auth(user=..., token=..., ip_address=..., user_agent=...): the field
\* `user` takes a dict or None and nothing else.
AuthValid(user) == user.k \in {"dict", "none"}

\* request.client.host and the User-Agent header of the requests
Clients ==
    {[host |-> "10.0.0.1", user_agent |-> "ua"], [host |-> "10.0.0.2", user_agent |-> "ub"]}

FirstClient == [host |-> "10.0.0.1", user_agent |-> "ua"]
NoClient == [host |-> "", user_agent |-> ""]

\* Auth(user=..., token=token, ip_address=request.client.host,
\*      user_agent=request.headers.get("User-Agent"))
ClientAuth(user, token, client) ==
    [user |-> user, token |-> token,
     ip_address |-> S(client.host), user_agent |-> S(client.user_agent)]

RequestAuth(user, token) == ClientAuth(user, token, FirstClient)

Resolved(cache, ctx, user, hit, stored, verifications, lookups, outcome) ==
    [cache |-> cache, ctx |-> ctx, user |-> user, hit |-> hit, stored |-> stored,
     verifications |-> verifications, lookups |-> lookups, outcome |-> outcome]

\* SecurityManager.get_current_user_or_none for a request that brings
\* `token` ("" when it brings none) from `client`, at time t.
get_current_user_or_none(client, cache, token, t, decoded, found) ==
    LET cached == get_cached_auth(cache, token, t)
        auth_obj == ClientAuth(found, token, client)
    IN  IF token = "" THEN Resolved(cache, NoAuth, None, FALSE, FALSE, 0, 0, "None")
        ELSE IF cached.hit
             THEN Resolved(cached.cache, cached.auth, cached.auth.user,
                           TRUE, FALSE, 0, 0, "user")
        ELSE IF decoded # "ok"
             THEN Resolved(cached.cache, NoAuth, None, FALSE, FALSE, 1, 0, "None")
        ELSE IF found = None
             THEN Resolved(cached.cache, NoAuth, None, FALSE, FALSE, 1, 1, "None")
        ELSE IF ~AuthValid(found)
             THEN Resolved(cached.cache, NoAuth, None, FALSE, FALSE, 1, 1, "ValidationError")
        ELSE Resolved(set_cached_auth(cached.cache, token, auth_obj, t), auth_obj, found,
                      FALSE, TRUE, 1, 1, "user")

\* utils.get_current_user_or_none: the identity is a dict built from the
\* User instance that get_user found.
utils_get_current_user_or_none(client, cache, token, t, decoded, found) ==
    LET cached == _get_cached_auth(cache, token, t)
        auth_obj == ClientAuth(snapshot(found), token, client)
    IN  IF token = "" THEN Resolved(cache, NoAuth, None, FALSE, FALSE, 0, 0, "None")
        ELSE IF cached.hit
             THEN Resolved(cached.cache, cached.auth, cached.auth.user,
                           TRUE, FALSE, 0, 0, "user")
        ELSE IF decoded # "ok"
             THEN Resolved(cached.cache, NoAuth, None, FALSE, FALSE, 1, 0, "None")
        ELSE IF found = None
             THEN Resolved(cached.cache, NoAuth, None, FALSE, FALSE, 1, 1, "None")
        ELSE Resolved(_set_cached_auth(cached.cache, token, auth_obj, t), auth_obj, found,
                      FALSE, TRUE, 1, 1, "user")

NoResolve ==
    [op |-> "none", impl |-> "", token |-> "", now |-> 0, decoded |-> "", found |-> None,
     entry |-> NoEntry, hit |-> FALSE, stored |-> FALSE, verifications |-> 0,
     lookups |-> 0, user |-> None, outcome |-> "none", client |-> NoClient]

Record(impl, token, decoded, found, entry, r) ==
    [NoResolve EXCEPT !.op = "resolve", !.impl = impl, !.token = token, !.now = now,
        !.decoded = decoded, !.found = found, !.entry = entry, !.hit = r.hit,
        !.stored = r.stored, !.verifications = r.verifications, !.lookups = r.lookups,
        !.user = r.user, !.outcome = r.outcome]

\* A request of `client` resolved by the SecurityManager
ResolveFrom(client, token, decoded, found) ==
    \E r \in {get_current_user_or_none(client, _auth_cache, token, now, decoded, found)} :
        /\ _auth_cache' = r.cache
        /\ current_auth' = r.ctx
        /\ last' = [Record("security_manager", token, decoded, found,
                           IF token = "" THEN NoEntry ELSE _auth_cache[token], r)
                       EXCEPT !.client = client]
        /\ UNCHANGED <<table, logs, next_id, _AUTH_CACHE, now, requests, _cache_ttl>>

\* A request resolved by the SecurityManager
Resolve(token, decoded, found) == ResolveFrom(FirstClient, token, decoded, found)

\* A request of `client` resolved by the functions of utils
UtilsResolveFrom(client, token, decoded, found) ==
    \E r \in {utils_get_current_user_or_none(client, _AUTH_CACHE, token, now, decoded, found)} :
        /\ _AUTH_CACHE' = r.cache
        /\ current_auth' = r.ctx
        /\ last' = [Record("utils", token, decoded, found,
                           IF token = "" THEN NoEntry ELSE _AUTH_CACHE[token], r)
                       EXCEPT !.client = client]
        /\ UNCHANGED <<table, logs, next_id, _auth_cache, now, requests, _cache_ttl>>

\* A request resolved by the functions of utils
UtilsResolve(token, decoded, found) == UtilsResolveFrom(FirstClient, token, decoded, found)

\* The clock moves on.
Tick ==
    /\ now + ClockStep <= MaxNow
    /\ now' = now + ClockStep
    /\ UNCHANGED <<table, logs, next_id, current_auth, last, _auth_cache, _AUTH_CACHE, requests,
                   _cache_ttl>>

InitAuth ==
    /\ table = [i \in Ids |-> NoRow]
    /\ logs = <<>>
    /\ next_id = 1
    /\ current_auth = NoAuth
    /\ last = NoResolve
    /\ InitCaches

NextAuth ==
    \/ \E token \in Tokens : \E found \in Lookups(token) : Resolve(token, "ok", found)
    \/ \E token \in Tokens \cup {""}, decoded \in Decodes \ {"ok"} :
           Resolve(token, decoded, None)
    \/ \E found \in {None, OrmUser({}, {}, {})} : UtilsResolve("T1", "ok", found)
    \/ \E token \in {"T1", ""} : UtilsResolve(token, "InvalidTokenError", None)
    \/ Tick

SpecAuth == InitAuth /\ [][NextAuth]_vars

\* ------------------------------------------------------ the resolve paths
\* Auth(user=user, token=token) of the two get_current_user
TokenAuth(user, token) ==
    [user |-> user, token |-> token, ip_address |-> None, user_agent |-> None]

\* SecurityManager.get_current_user: the token is there (oauth2_scheme
\* answers 401 without one).
get_current_user(cache, token, t, decoded, found) ==
    LET cached == get_cached_auth(cache, token, t)
        auth_obj == TokenAuth(found, token)
    IN  IF cached.hit
        THEN Resolved(cached.cache, cached.auth, cached.auth.user,
                      TRUE, FALSE, 0, 0, "user")
        ELSE IF decoded # "ok"
             THEN Resolved(cached.cache, NoAuth, None, FALSE, FALSE, 1, 0, "401")
        ELSE IF found = None
             THEN Resolved(cached.cache, NoAuth, None, FALSE, FALSE, 1, 1, "401")
        ELSE IF ~AuthValid(found)
             THEN Resolved(cached.cache, NoAuth, None, FALSE, FALSE, 1, 1, "ValidationError")
        ELSE Resolved(set_cached_auth(cached.cache, token, auth_obj, t), auth_obj, found,
                      FALSE, TRUE, 1, 1, "user")

\* utils.get_current_user
utils_get_current_user(cache, token, t, decoded, found) ==
    LET cached == _get_cached_auth(cache, token, t)
        auth_obj == TokenAuth(found, token)
    IN  IF cached.hit
        THEN Resolved(cached.cache, cached.auth, cached.auth.user,
                      TRUE, FALSE, 0, 0, "user")
        ELSE IF decoded # "ok"
             THEN Resolved(cached.cache, NoAuth, None, FALSE, FALSE, 1, 0, "401")
        ELSE IF found = None
             THEN Resolved(cached.cache, NoAuth, None, FALSE, FALSE, 1, 1, "401")
        ELSE IF ~AuthValid(found)
             THEN Resolved(cached.cache, NoAuth, None, FALSE, FALSE, 1, 1, "ValidationError")
        ELSE Resolved(_set_cached_auth(cached.cache, token, auth_obj, t), auth_obj, found,
                      FALSE, TRUE, 1, 1, "user")

\* A request whose dependency is SecurityManager.get_current_user
GetCurrentUser(token, decoded, found) ==
    \E r \in {get_current_user(_auth_cache, token, now, decoded, found)} :
        /\ _auth_cache' = r.cache
        /\ current_auth' = r.ctx
        /\ last' = [Record("security_manager", token, decoded, found, _auth_cache[token], r)
                       EXCEPT !.op = "get_current_user"]
        /\ UNCHANGED <<table, logs, next_id, _AUTH_CACHE, now, requests, _cache_ttl>>

\* A request whose dependency is utils.get_current_user
UtilsGetCurrentUser(token, decoded, found) ==
    \E r \in {utils_get_current_user(_AUTH_CACHE, token, now, decoded, found)} :
        /\ _AUTH_CACHE' = r.cache
        /\ current_auth' = r.ctx
        /\ last' = [Record("utils", token, decoded, found, _AUTH_CACHE[token], r)
                       EXCEPT !.op = "get_current_user"]
        /\ UNCHANGED <<table, logs, next_id, _auth_cache, now, requests, _cache_ttl>>

\* The four resolve paths over the users of the datastore.
NextResolve ==
    \/ \E found \in OrmUsers \cup {None} : Resolve("T1", "ok", found)
    \/ \E found \in OrmUsers \cup {None} : UtilsResolve("T1", "ok", found)
    \/ \E found \in OrmUsers \cup {None} : GetCurrentUser("T1", "ok", found)
    \/ \E found \in OrmUsers \cup {None} : UtilsGetCurrentUser("T1", "ok", found)
    \/ \E decoded \in Decodes \ {"ok"} : Resolve("T1", decoded, None)
    \/ \E decoded \in Decodes \ {"ok"} : GetCurrentUser("T1", decoded, None)
    \/ Tick

SpecResolve == InitAuth /\ [][NextResolve]_vars

\* A SecurityManager whose _cache_ttl was set to zero or below.
DisabledTtls == {0, -1}

InitTtl ==
    /\ table = [i \in Ids |-> NoRow]
    /\ logs = <<>>
    /\ next_id = 1
    /\ current_auth = NoAuth
    /\ last = NoResolve
    /\ _auth_cache = [tk \in Tokens |-> NoEntry]
    /\ _AUTH_CACHE = [tk \in Tokens |-> NoEntry]
    /\ now = 0
    /\ requests = [r \in Reqs |-> Idle]
    /\ _cache_ttl \in DisabledTtls

NextTtl ==
    \/ \E token \in Tokens : \E found \in {None} \cup UsersOf(token) :
           Resolve(token, "ok", found)
    \/ \E token \in Tokens : \E found \in {None} \cup UsersOf(token) :
           GetCurrentUser(token, "ok", found)
    \/ Tick

SpecTtl == InitTtl /\ [][NextTtl]_vars

\* Requests of two clients that bring the same tokens.
NextClients ==
    \/ \E client \in Clients, token \in Tokens :
           ResolveFrom(client, token, "ok", UserDict(token = "T2", {}))
    \/ \E client \in Clients, token \in Tokens :
           UtilsResolveFrom(client, token, "ok", OrmUser({}, {}, {}))
    \/ Tick

SpecClients == InitAuth /\ [][NextClients]_vars


\* ------------------------------------------------------------ pagination
\* list over tables of up to MaxRows entities, with pages and page sizes in
\* and out of range.  Every seventh entity of a table with soft-deleted
\* rows is soft-deleted; the names alternate.
MaxRows == 25

ListTables ==
    {[i \in 1..n |-> Row(some_deleted /\ i % 7 = 0, IF i % 2 = 0 THEN "Ab" ELSE "a")] :
        n \in 0..MaxRows, some_deleted \in BOOLEAN}

PageInputs == {-1, 0, 1, 2, 3, 4}
PerPageInputs == {-1, 0, 1, 10, 100, 101}

\* list with the defaults of include_deleted, sort_by and sort_order
ListPage(page, per_page, filters) == List(page, per_page, FALSE, TRUE, filters)

InitList ==
    /\ table \in ListTables
    /\ logs = <<>>
    /\ next_id = 1
    /\ current_auth = NoAuth
    /\ last = NoCall
    /\ InitCaches

NextList ==
    \E page \in PageInputs, per_page \in PerPageInputs, f \in {EmptyDict, "query" :> S("B")} :
        ListPage(page, per_page, f)

SpecList == InitList /\ [][NextList]_vars

\* ------------------------------------------------------- the logs resource
\* LogRouter is CRUDApi over LogService over LogRepository, whose model is
\* Log.  The audit table outlives the process: the rows it holds when the
\* process starts were persisted before.  The row with id n is logs[n].

\* The fields and relationships of class Log
LogModelFields ==
    {"id", "table_name", "record_id", "action", "old_data", "new_data", "user_id",
     "created_at", "ip_address", "user_agent", "user"}

\* The fields of schema LogUpdate
LogUpdateFields == {"name"}

\* update_schema.model_validate(item_data): the fields of the schema that
\* the body sets; the others are ignored.
model_validate(item_data) ==
    [f \in DOMAIN item_data \cap LogUpdateFields |-> item_data[f]]

\* The rows an earlier run may have left: a create and a soft delete of entity 1.
PersistedEntries ==
    {[table_name |-> "entity", record_id |-> 1, action |-> "create", old_data |-> None,
      new_data |-> "name" :> S("a"), user_id |-> None, ip_address |-> None,
      user_agent |-> None],
     [table_name |-> "entity", record_id |-> 1, action |-> "delete",
      old_data |-> "is_deleted" :> B(FALSE), new_data |-> "is_deleted" :> B(TRUE),
      user_id |-> None, ip_address |-> None, user_agent |-> None]}

LogIds == 1..MaxLogs

\* db.get(Log, item_id), and repository.get: Log is no BaseModel, the
\* soft-delete criteria do not reach it.
log_exists(lg, item_id) == item_id \in 1..Len(lg)

\* The loop of update over update_data on a Log instance
LogApplyUpdate(row, update_data) ==
    [f \in DOMAIN row |->
        IF f \in DOMAIN update_data /\ update_data[f] # None /\ f \in LogModelFields /\ f # "id"
        THEN update_data[f] ELSE row[f]]

RemoveAt(q, n) == SubSeq(q, 1, n - 1) \o SubSeq(q, n + 1, Len(q))

LogEffect(lg, outcome) == [logs |-> lg, outcome |-> outcome]

\* CRUDApi.update_item -> BaseService.update -> BaseRepository.update
update_item(lg, item_id, item_data) ==
    LET update_data == Without(model_validate(item_data), "id")
    IN  IF ~log_exists(lg, item_id) THEN LogEffect(lg, "404")
        ELSE IF DOMAIN update_data = {} THEN LogEffect(lg, "500")
        ELSE LogEffect([lg EXCEPT ![item_id] = LogApplyUpdate(@, update_data)], "200")

\* CRUDApi.soft_delete_item -> BaseService.soft_delete ->
\* BaseRepository.soft_delete, which raises AttributeError for a model
\* without is_deleted.
soft_delete_item(lg, item_id) ==
    IF ~log_exists(lg, item_id) THEN LogEffect(lg, "404")
    ELSE IF "is_deleted" \notin LogModelFields THEN LogEffect(lg, "500")
    ELSE LogEffect([lg EXCEPT ![item_id].is_deleted = TRUE], "200")

\* CRUDApi.restore_item -> BaseService.restore -> BaseRepository.restore
restore_item(lg, item_id) ==
    IF "is_deleted" \notin LogModelFields THEN LogEffect(lg, "500")
    ELSE IF ~log_exists(lg, item_id) THEN LogEffect(lg, "404")
    ELSE LogEffect([lg EXCEPT ![item_id].is_deleted = FALSE], "200")

\* CRUDApi.force_delete_item -> BaseService.force_delete ->
\* BaseRepository.force_delete: db.delete(db_obj), then commit(db, db_obj),
\* whose db.commit() deletes the row and whose db.refresh(db_obj) raises for
\* the deleted instance.
force_delete_item(lg, item_id) ==
    IF ~log_exists(lg, item_id) THEN LogEffect(lg, "404")
    ELSE LET c == commit([i \in Ids |-> NoRow], lg, [i \in Ids |-> NoRow],
                         RemoveAt(lg, item_id), FALSE, "none")
         IN  LogEffect(c.logs, IF c.raised = "none" THEN "200" ELSE "500")

\* CRUDApi.bulk_delete -> BaseService.bulk_delete -> BaseRepository.bulk_delete
logs_bulk_delete(lg, ids) ==
    IF "is_deleted" \notin LogModelFields THEN LogEffect(lg, "500")
    ELSE LogEffect([n \in 1..Len(lg) |->
                       IF \E m \in 1..Len(ids) : ids[m] = n
                       THEN [lg[n] EXCEPT !.is_deleted = ~@] ELSE lg[n]], "200")

\* A request to the logs resource by a caller the route lets through.
LogRequest(op, item_id, ids, item_data, effect) ==
    \E eff \in {effect} :
        /\ logs' = eff.logs
        /\ last' = [NoCall EXCEPT !.op = op, !.id = item_id, !.ids = ids,
                       !.data = item_data, !.outcome = eff.outcome, !.prelogs = logs]
        /\ UNCHANGED <<table, next_id, current_auth, authvars>>

UpdateItem(item_id, item_data) ==
    LogRequest("update_item", item_id, <<>>, item_data, update_item(logs, item_id, item_data))

SoftDeleteItem(item_id) ==
    LogRequest("soft_delete_item", item_id, <<>>, EmptyDict, soft_delete_item(logs, item_id))

RestoreItem(item_id) ==
    LogRequest("restore_item", item_id, <<>>, EmptyDict, restore_item(logs, item_id))

ForceDeleteItem(item_id) ==
    LogRequest("force_delete_item", item_id, <<>>, EmptyDict, force_delete_item(logs, item_id))

LogsBulkDelete(ids) ==
    LogRequest("bulk_delete", 0, ids, EmptyDict, logs_bulk_delete(logs, ids))

LogBodies == {EmptyDict, "name" :> S("a"), "name" :> None, "action" :> S("create")}

RECURSIVE SeqsUpTo(_, _)
SeqsUpTo(set, n) ==
    IF n = 0 THEN {<<>>}
    ELSE SeqsUpTo(set, n - 1) \cup
         {Append(q, x) : q \in {y \in SeqsUpTo(set, n - 1) : Len(y) = n - 1}, x \in set}

InitLogs ==
    /\ table = [i \in Ids |-> NoRow]
    /\ logs \in SeqsUpTo(PersistedEntries, MaxLogs)
    /\ next_id = 1
    /\ current_auth = NoAuth
    /\ last = NoCall
    /\ InitCaches

NextLogs ==
    \/ \E item_id \in LogIds, item_data \in LogBodies : UpdateItem(item_id, item_data)
    \/ \E item_id \in LogIds : SoftDeleteItem(item_id)
    \/ \E item_id \in LogIds : RestoreItem(item_id)
    \/ \E item_id \in LogIds : ForceDeleteItem(item_id)
    \/ \E ids \in IdLists : LogsBulkDelete(ids)

SpecLogs == InitLogs /\ [][NextLogs]_vars

\* ------------------------------------------------------ concurrent requests
\* Every request runs in its own task, with its own copy of the context;
\* the cache is one dict of the process.  A request is taken a statement
\* at a time, and the statements of different requests interleave.

\* SecurityManager.set_auth with the identity kept in one variable of the
\* process instead of a context variable
set_auth_shared(rs, r, auth_obj) ==
    [q \in DOMAIN rs |-> [rs[q] EXCEPT !.ctx = auth_obj]]

\* SecurityManager.set_auth: _current_auth.set(auth) writes the context of
\* the task that runs the statement.
set_auth(rs, r, auth_obj) ==
    [rs EXCEPT ![r].ctx = auth_obj]

\* auth().user and the other properties read the context of the running task.
ctx_get(rs, r) == rs[r].ctx

\* entry = self._auth_cache.get(token)
cache_get(cache, token) == cache[token]

\* del self._auth_cache[token]: KeyError when the key is gone.
cache_del(cache, token) ==
    IF cache[token].present
    THEN [raised |-> "none", cache |-> [cache EXCEPT ![token] = NoEntry]]
    ELSE [raised |-> "KeyError", cache |-> cache]

\* The user that get_user finds for the subject of a token.
UserOfToken(token) == UserDict(token = "T2", {})

ReqFrame == UNCHANGED <<table, logs, next_id, current_auth, last, _AUTH_CACHE, _cache_ttl>>

\* A request arrives, with a bearer token or without one; one without
\* returns None from get_current_user_or_none at once.
Arrive(r, token) ==
    /\ requests[r].pc = "idle"
    /\ requests' = [requests EXCEPT ![r] =
           [Idle EXCEPT !.pc = IF token = "" THEN "handler" ELSE "get", !.token = token]]
    /\ UNCHANGED <<_auth_cache, now>>
    /\ ReqFrame

\* get_cached_auth, first statement
LookupGet(r) ==
    /\ requests[r].pc = "get"
    /\ requests' = [requests EXCEPT ![r].pc = "check",
                                    ![r].entry = cache_get(_auth_cache, requests[r].token)]
    /\ UNCHANGED <<_auth_cache, now>>
    /\ ReqFrame

\* get_cached_auth, the tests on the entry read; a live entry is returned
\* and published in the context of the request.
LookupCheck(r) ==
    /\ requests[r].pc = "check"
    /\ requests' =
           IF ~requests[r].entry.present
           THEN [requests EXCEPT ![r].pc = "verify"]
           ELSE IF requests[r].entry.expire_time > now
           THEN [set_auth(requests, r, requests[r].entry.auth)
                    EXCEPT ![r].pc = "handler", ![r].hit_at = now]
           ELSE [requests EXCEPT ![r].pc = "evict"]
    /\ UNCHANGED <<_auth_cache, now>>
    /\ ReqFrame

\* get_cached_auth, the eviction of the entry found expired; an exception
\* leaves get_current_user_or_none and ends the request.
LookupEvict(r) ==
    /\ requests[r].pc = "evict"
    /\ \E d \in {cache_del(_auth_cache, requests[r].token)} :
        /\ _auth_cache' = d.cache
        /\ requests' = [requests EXCEPT
               ![r].pc = IF d.raised = "none" THEN "verify" ELSE "done",
               ![r].raised = d.raised]
    /\ UNCHANGED now
    /\ ReqFrame

\* The token is decoded and the user loaded; a user found is cached and
\* published in the context of the request.
Verify(r, decoded, found) ==
    /\ requests[r].pc = "verify"
    /\ IF decoded = "ok" /\ found # None
       THEN \E auth_obj \in {RequestAuth(found, requests[r].token)} :
            /\ _auth_cache' = set_cached_auth(_auth_cache, requests[r].token, auth_obj, now)
            /\ requests' = [set_auth(requests, r, auth_obj) EXCEPT ![r].pc = "handler"]
       ELSE /\ requests' = [requests EXCEPT ![r].pc = "handler"]
            /\ UNCHANGED _auth_cache
    /\ UNCHANGED now
    /\ ReqFrame

\* The handler reads the identity of its context.
Handle(r) ==
    /\ requests[r].pc = "handler"
    /\ requests' = [requests EXCEPT ![r].pc = "done", ![r].read = ctx_get(requests, r)]
    /\ UNCHANGED <<_auth_cache, now>>
    /\ ReqFrame

\* The response is sent and the task ends, its context with it.
Finish(r) ==
    /\ requests[r].pc = "done"
    /\ requests' = [requests EXCEPT ![r] = Idle]
    /\ UNCHANGED <<_auth_cache, now>>
    /\ ReqFrame

NextRequests ==
    \/ \E r \in Reqs, token \in Tokens \cup {""} : Arrive(r, token)
    \/ \E r \in Reqs : LookupGet(r)
    \/ \E r \in Reqs : LookupCheck(r)
    \/ \E r \in Reqs : LookupEvict(r)
    \/ \E r \in Reqs : Verify(r, "ok", UserOfToken(requests[r].token))
    \/ \E r \in Reqs, decoded \in Decodes \ {"ok"} : Verify(r, decoded, None)
    \/ \E r \in Reqs : Handle(r)
    \/ \E r \in Reqs : Finish(r)
    \/ Tick

SpecRequests == InitAuth /\ [][NextRequests]_vars

\* ---------------------------------------------------- repository properties
ReadOps == {"get", "get_all", "get_many", "list", "count"}
SingleOps == {"create", "update", "soft_delete", "restore", "force_delete"}
BulkOps == {"create_many", "bulk_create", "bulk_update", "bulk_delete", "force_delete_many"}

\* The rows of the table that match the filters of the last call, soft-deleted
\* rows included: the WHERE conditions of the filters alone.
Matching ==
    LET processed == __get_filter(last.filters)
        conds == UNION {FilterConds(f, processed.filters[f]) : f \in DOMAIN processed.filters}
    IN  {i \in Ids : table[i].present /\ \A cond \in conds : Holds(cond, i, table[i])}

Deleted == {i \in Ids : table[i].present /\ table[i].is_deleted}

\* C1: a soft-deleted entity never appears in the result of get, list, count,
\* get_all or get_many called without include_deleted, and with
\* include_deleted=True the soft-deleted entities that match the other
\* filters are included (in the entity of get, the rows of get_all, the
\* totals of list and count).
C1_SoftDeletedHiddenUnlessIncluded ==
    (last.op \in ReadOps /\ last.outcome = "ok") =>
        /\ ~last.include_deleted =>
               /\ last.rset \cap Deleted = {}
               /\ last.op \in {"list", "count"} =>
                      last.total = Cardinality(Matching \ Deleted)
        /\ last.include_deleted =>
               /\ last.op = "get" => last.rset = Matching \cap {last.id}
               /\ last.op = "get_all" => last.rset = Matching
               /\ last.op \in {"list", "count"} => last.total = Cardinality(Matching)

\* C2: a successful create, update, soft_delete, restore or force_delete
\* commits exactly one audit entry, a successful bulk call one per affected
\* row, and a call that returns None or False for a missing id commits none.
C2_OneAuditEntryPerChange ==
    /\ (last.op \in SingleOps /\ last.outcome \in {"ok", "True"}) =>
           Len(logs) = Len(last.prelogs) + 1
    /\ (last.op \in BulkOps /\ last.outcome \in {"ok", "True"}) =>
           Len(logs) = Len(last.prelogs) + Cardinality(last.rset)
    /\ (last.op \in SingleOps /\ last.outcome \in {"None", "False"}) =>
           logs = last.prelogs

\* C3: the data change and its audit entry are committed together or not at
\* all: a changed table comes with a new audit entry, and after a call that
\* failed in the data layer or was cancelled before the commit the datastore
\* holds neither the change nor the entry.
C3_ChangeAndAuditAtomic ==
    (last.op \in SingleOps \cup BulkOps) =>
        /\ table # last.pre => logs # last.prelogs
        /\ logs # last.prelogs => last.outcome \in {"ok", "True"}
        /\ last.outcome \in {"RepositoryError", "Cancelled"} =>
               (table = last.pre /\ logs = last.prelogs)

\* -------------------------------------------------------- access properties
\* The caller of the last request and what it carries.
Caller == current_auth.user
IsSuperuser == TruthyUser(Caller) /\ dict_get(Caller.v, "is_superuser", FALSE)
CallerPerms == IF Caller = None THEN {} ELSE dict_get(Caller.v, "permissions", {})

Guarded == last.op \in {"endpoint", "route"} /\ last.need_auth

\* The caller holds a permission for `action` on the required resource whose
\* scope is exactly the required scope.
HoldsExact(action) ==
    \E q \in CallerPerms :
        q.resource = last.resource /\ q.action = action /\ q.app_name = last.app_name

\* The same when the required scope, if one is required, is the scope of the
\* permission; without a required scope every scope counts.
HoldsForRequired(action) ==
    \E q \in CallerPerms :
        /\ q.resource = last.resource /\ q.action = action
        /\ (last.app_name = None \/ q.app_name = last.app_name)

\* The same when the permission is global or its scope is the required scope.
HoldsGlobalOrScoped(action) ==
    \E q \in CallerPerms :
        /\ q.resource = last.resource /\ q.action = action
        /\ (q.app_name = None \/ q.app_name = last.app_name)

\* The caller holds a permission for `action` on the resource in some scope.
HoldsInSomeScope(action) ==
    \E q \in CallerPerms : q.resource = last.resource /\ q.action = action

C6_SuperuserAlwaysAllowed ==
    (Guarded /\ IsSuperuser) => last.outcome = "call"

\* A superuser without any permission was let through by the SecurityManager.
C6_Witness ==
    /\ Guarded /\ IsSuperuser /\ CallerPerms = {}
    /\ last.enforcer = "security_manager"
    /\ last.required_actions = {"read", "delete"} /\ last.app_name = S("hr")
    /\ last.outcome = "call"

C8_PublicRoutesAlwaysRun ==
    (last.op = "route"
     /\ last.path \in {"/model/fields", "/model/form-config", "/enum/{enum_name}/"})
        => last.outcome = "call"

C10_ExpiredEntryNeverReturned ==
    (last.op = "resolve" /\ last.token # "") =>
        /\ last.hit => (last.entry.present /\ last.entry.expire_time > last.now)
        /\ (last.entry.present /\ last.entry.expire_time <= last.now) =>
               /\ ~last.hit
               /\ last.verifications = 1
               /\ ~last.stored =>
                      ~(IF last.impl = "utils" THEN _AUTH_CACHE ELSE _auth_cache)[last.token].present

\* A resolve at the very second an entry of the SecurityManager expired
\* found nothing and verified the token again.
C10_Witness ==
    /\ last.op = "resolve" /\ last.impl = "security_manager"
    /\ last.entry.present /\ last.entry.expire_time = last.now
    /\ ~last.hit /\ last.verifications = 1 /\ ~_auth_cache[last.token].present
\* ------------------------------------------------------- audit properties
\* The calls that change rows and whose commit refreshes persistent objects.
C13_Ops == {"create", "update", "soft_delete", "restore", "bulk_delete"}

\* The call in `last` met no fault of its own: nothing failed but, at most,
\* the writing of its audit entry, and it had a row to change.
PrimaryUnfaulted ==
    /\ last.op \in C13_Ops
    /\ last.fault \in {"none", "log_flush_error"}
    /\ CASE last.op = "create" -> ~last.pre[next_id - 1].present
         [] last.op = "update" ->
                DOMAIN Without(last.data, "id") # {} /\ db_get(last.pre, last.id) # {}
         [] last.op = "bulk_delete" -> TRUE
         [] OTHER -> db_get(last.pre, last.id) # {}

\* The change of the call in `last` is in the datastore.
PrimaryCommitted ==
    CASE last.op = "create" -> table[next_id - 1] = NewRow(last.data)
      [] last.op = "update" ->
             table[last.id] = ApplyUpdate(last.pre[last.id], Without(last.data, "id"))
      [] last.op = "soft_delete" -> table[last.id] = [last.pre[last.id] EXCEPT !.is_deleted = TRUE]
      [] last.op = "restore" -> table[last.id] = [last.pre[last.id] EXCEPT !.is_deleted = FALSE]
      [] last.op = "bulk_delete" ->
             \A n \in 1..Len(last.ids) :
                 db_get(last.pre, last.ids[n]) # {} => table[last.ids[n]].is_deleted
      [] OTHER -> FALSE

C15_AuditLogAppendOnly ==
    [][\A n \in 1..Len(logs) : n <= Len(logs') /\ logs'[n] = logs[n]]_vars

\* C16: restore of an entity that is active returns False, changes no
\* record, writes no audit entry and raises nothing.
C16_RestoreActiveIsNoOp ==
    (/\ last.op = "restore" /\ last.fault = "none"
     /\ last.pre[last.id].present /\ ~last.pre[last.id].is_deleted) =>
        /\ last.outcome = "False"
        /\ table = last.pre
        /\ logs = last.prelogs

\* The ids given to the bulk call in `last` that had a row before it.
GivenIds == {i \in Ids : last.pre[i].present /\ \E n \in 1..Len(last.ids) : last.ids[n] = i}

\* C17: a bulk_delete that returns flips is_deleted of every entity whose id
\* it is given, active or soft-deleted, and commits one audit row per such
\* id, with the value of is_deleted before the call as old_data and the one
\* after it as new_data.
C17_BulkDeleteTogglesEveryId ==
    (last.op = "bulk_delete" /\ last.outcome = "True") =>
        /\ \A i \in GivenIds : table[i].is_deleted = ~last.pre[i].is_deleted
        /\ Len(logs) = Len(last.prelogs) + Cardinality(GivenIds)
        /\ \A i \in GivenIds :
               \E n \in (Len(last.prelogs) + 1)..Len(logs) :
                   /\ logs[n].record_id = i
                   /\ logs[n].old_data = "is_deleted" :> B(last.pre[i].is_deleted)
                   /\ logs[n].new_data = "is_deleted" :> B(table[i].is_deleted)

\* C18: a successful update commits exactly one audit entry, whose old_data
\* is the entity as it was before the update and whose new_data is the
\* entity as it is stored after it (both without id and is_deleted).
C18_UpdateAuditMatchesStored ==
    (last.op = "update" /\ last.outcome = "ok") =>
        /\ Len(logs) = Len(last.prelogs) + 1
        /\ logs[Len(logs)].record_id = last.id
        /\ logs[Len(logs)].old_data = dump_fields(last.pre[last.id])
        /\ logs[Len(logs)].new_data = dump_fields(table[last.id])

\* The entity get returns for the id that the create in `last` was given.
CreatedId == next_id - 1
GetCreated == get(table, CreatedId, FALSE, EmptyDict)

\* The fields of the created entity equal the data, and a field left out
\* has its default.
FieldsEqualData ==
    /\ table[CreatedId].name = last.data["name"].v
    /\ table[CreatedId].is_deleted =
           IF "is_deleted" \in DOMAIN last.data THEN last.data["is_deleted"].v ELSE FALSE
    /\ ~last.pre[CreatedId].present

\* C19 as stated: after a successful create(data), get of the new id returns
\* the entity, whose fields equal data with the defaults applied.
C19_CreateThenGetReturnsData ==
    (last.op = "create" /\ last.outcome = "ok") =>
        /\ GetCreated.outcome = "ok" /\ GetCreated.rset = {CreatedId}
        /\ FieldsEqualData

\* C19: the stored fields always equal data with the defaults applied, and
\* get returns the entity unless data sets is_deleted to true, when it
\* returns none.
C19_CreateThenGetUnlessDeleted ==
    (last.op = "create" /\ last.outcome = "ok") =>
        /\ FieldsEqualData
        /\ GetCreated.outcome = "ok"
        /\ GetCreated.rset = IF table[CreatedId].is_deleted THEN {} ELSE {CreatedId}

\* A create of data without is_deleted whose entity get returns.
C19_Witness ==
    /\ last.op = "create" /\ last.outcome = "ok"
    /\ last.data = "name" :> S("Ab")
    /\ GetCreated.rset = {CreatedId}
    /\ table[CreatedId] = Row(FALSE, "Ab")

\* ------------------------------------------------------- list properties
\* The entities that are not soft-deleted and pass the filters of the call.
Listed ==
    LET processed == __get_filter(last.filters)
        conds == UNION {FilterConds(f, processed.filters[f]) : f \in DOMAIN processed.filters}
    IN  {i \in DOMAIN table : /\ table[i].present /\ ~table[i].is_deleted
                              /\ \A cond \in conds : Holds(cond, i, table[i])}

Offset == (last.page - 1) * last.per_page

\* C20: list with the default order answers for every page and page size:
\* a page below 1 counts as 1 and a page size outside 1..100 as 10, total
\* is the number of filtered entities, pages its quotient by the page size
\* rounded up, and the items are the entities of the page by id descending,
\* at most a page size of them.  Of 25 entities that are not deleted, page
\* 1 of size 10 has total 25, pages 3 and the ids 25 down to 16.
C20_ListPaginates ==
    (last.op = "list" /\ last.desc /\ ~last.include_deleted) =>
        /\ last.outcome = "ok"
        /\ last.page = IF last.page_in < 1 THEN 1 ELSE last.page_in
        /\ last.per_page = IF last.per_page_in \in 1..100 THEN last.per_page_in ELSE 10
        /\ last.total = Cardinality(Listed)
        /\ last.pages * last.per_page >= last.total
        /\ (last.pages - 1) * last.per_page < last.total
        /\ Len(last.rseq) <= last.per_page
        /\ Len(last.rseq) = IF last.total - Offset <= 0 THEN 0
                            ELSE IF last.total - Offset < last.per_page
                            THEN last.total - Offset ELSE last.per_page
        /\ \A n \in 1..Len(last.rseq) :
               /\ last.rseq[n] \in Listed
               /\ Cardinality({i \in Listed : i > last.rseq[n]}) = Offset + n - 1
        /\ (/\ DOMAIN table = 1..25 /\ Cardinality(Listed) = 25
            /\ last.page = 1 /\ last.per_page = 10) =>
               /\ last.total = 25 /\ last.pages = 3
               /\ last.rseq = [n \in 1..10 |-> 26 - n]

\* Page 0 of size 101 asked of 25 entities that are not deleted: the first
\* ten by id descending, out of 25 on 3 pages.
C20_Witness ==
    /\ last.op = "list" /\ last.outcome = "ok"
    /\ last.page_in = 0 /\ last.per_page_in = 101
    /\ DOMAIN table = 1..25 /\ \A i \in DOMAIN table : ~table[i].is_deleted
    /\ last.filters = EmptyDict
    /\ last.page = 1 /\ last.per_page = 10
    /\ last.total = 25 /\ last.pages = 3
    /\ last.rseq = <<25, 24, 23, 22, 21, 20, 19, 18, 17, 16>>

\* ------------------------------------------------------ failure properties
\* C21: the type of the error tells the kind of failure: InvalidFilter for
\* a filter value that a registered cast rejects, IntegrityViolation for a
\* broken integrity constraint (here a create whose id is taken), and
\* RepositoryError for any other failure of the data layer.
C21_FailuresTypedAndDistinguishable ==
    /\ (last.op \in ReadOps /\ ~__get_filter(last.filters).ok) =>
           last.outcome = "InvalidFilter"
    /\ (last.op = "create" /\ last.fault = "none" /\ last.pre[next_id - 1].present) =>
           last.outcome = "IntegrityViolation"
    /\ (last.op \in SingleOps \cup BulkOps /\ last.fault = "commit_error") =>
           last.outcome = "RepositoryError"

\* ---------------------------------------------------- resolve properties
\* The cache of the implementation that served the last resolve.
CacheOfLast == IF last.impl = "utils" THEN _AUTH_CACHE ELSE _auth_cache

\* C22: a resolve that verified the token and found the user caches and
\* publishes an identity whose permissions are the user's own, those of the
\* user's roles and those of the roles of the user's groups, together.
C22_SnapshotCarriesEffectivePermissions ==
    (/\ last.op \in {"resolve", "get_current_user"}
     /\ ~last.hit /\ last.decoded = "ok" /\ last.found # None) =>
        /\ last.stored
        /\ CacheOfLast[last.token].present
        /\ dict_get(CacheOfLast[last.token].auth.user.v, "permissions", {})
               = effective_permissions(last.found)
        /\ current_auth.user # None
        /\ dict_get(current_auth.user.v, "permissions", {}) = effective_permissions(last.found)

\* C23: a SecurityManager whose time to live is zero or negative serves no
\* resolve from its cache: every resolve decodes the token again.
C23_NonPositiveTtlDisablesCache ==
    (/\ _cache_ttl <= 0
     /\ last.op \in {"resolve", "get_current_user"}
     /\ last.impl = "security_manager") =>
        (~last.hit /\ last.verifications = 1)

\* The token is resolved again at the very instant its entry was stored
\* with a time to live of zero, and is verified again.
C23_Witness ==
    /\ _cache_ttl = 0
    /\ last.op \in {"resolve", "get_current_user"}
    /\ last.entry.present
    /\ last.entry.expire_time = last.now
    /\ ~last.hit
    /\ last.verifications = 1
    /\ last.outcome = "user"

\* C24: an entry that utils._set_cached_auth stores at time t expires at
\* t + _CACHE_TTL, and a lookup before the expiry of the entry returns it.
C24_UtilsEntryLivesForTtl ==
    /\ (last.op = "resolve" /\ last.impl = "utils" /\ last.stored) =>
           /\ _AUTH_CACHE[last.token].present
           /\ _AUTH_CACHE[last.token].expire_time = last.now + _CACHE_TTL
    /\ (/\ last.op = "resolve" /\ last.impl = "utils"
        /\ last.entry.present /\ last.now < last.entry.expire_time) => last.hit

\* C25: a mutating call that raised RepositoryError left the entity table
\* and the audit table exactly as they were before the call.
C25_RepositoryErrorLeavesDatastore ==
    (last.op \in SingleOps \cup BulkOps /\ last.outcome = "RepositoryError") =>
        (table = last.pre /\ logs = last.prelogs)

\* C26: a resolve served from the cache publishes a context that carries
\* the address and the user agent of the request being served.
C26_HitCarriesServedRequest ==
    (last.op = "resolve" /\ last.hit) =>
        /\ current_auth.ip_address = S(last.client.host)
        /\ current_auth.user_agent = S(last.client.user_agent)

\* C27: restore of an entity that was soft-deleted returns True and leaves
\* the entity active and visible to get, with its other fields as they were.
C27_RestoreUndoesSoftDelete ==
    (/\ last.op = "restore" /\ last.fault = "none"
     /\ last.pre[last.id].present /\ last.pre[last.id].is_deleted) =>
        /\ last.outcome = "True"
        /\ table = [last.pre EXCEPT ![last.id].is_deleted = FALSE]
        /\ db_get(table, last.id) = {last.id}

UserField(r, f) ==
    CASE f = "name" -> r.name
      [] f = "roles" -> r.roles
      [] f = "is_deleted" -> r.is_deleted

Named(f) == f \in DOMAIN last.data /\ last.data[f].k # "none"

\* C29: update changes no other entity, leaves the entity under its id also
\* when the data carry an id, keeps every field that the data do not name or
\* give as None, and gives a named field the value of the data: by
\* assignment, or for roles what update_roles makes of it.
C29_UpdateFrame ==
    (last.op = "update") =>
        /\ \A i \in UserIds \ {last.id} : table[i] = last.pre[i]
        /\ table[last.id].present = last.pre[last.id].present
        /\ \A f \in {"name", "roles", "is_deleted"} :
               ~Named(f) => UserField(table[last.id], f) = UserField(last.pre[last.id], f)
        /\ last.outcome = "ok" =>
               /\ Named("name") => table[last.id].name = last.data["name"].v
               /\ Named("roles") =>
                      table[last.id].roles = Range(last.data["roles"].v) \cap RoleIds

\* An update whose data carry an id, a None name and roles, one of which
\* does not exist, on a user that had other roles.
C29_Witness ==
    /\ last.op = "update" /\ last.outcome = "ok"
    /\ last.data = ("id" :> I(2)) @@ ("name" :> None) @@ ("roles" :> L(<<1, 3>>))
    /\ last.id = 1
    /\ last.pre[1].roles = {1, 2}
    /\ table[1].roles = {1}
    /\ table[1].name = "a"
    /\ table[2] = last.pre[2]

\* ------------------------------------------------------ commit properties
\* The position of an event among the events of the running call, 0 when it
\* has not happened.
Pos(e) ==
    IF \E n \in 1..Len(last.events) : last.events[n] = e
    THEN CHOOSE n \in 1..Len(last.events) : last.events[n] = e
    ELSE 0

Happened(e) == Pos(e) > 0

\* C30: within one create the before_create hook, when the repository has
\* one, has completed before the commit; the refresh comes after the commit;
\* the after_create hook runs after commit and refresh; and when
\* before_create raises, there is no commit and the table and the audit
\* table are as before the call.
C30_CommitStepsOrdered ==
    (last.op = "create") =>
        /\ (Happened("commit") /\ "before_create" \in last.hooks) =>
               (Happened("before_create") /\ Pos("before_create") < Pos("commit"))
        /\ Happened("refresh") => (Happened("commit") /\ Pos("commit") < Pos("refresh"))
        /\ \A e \in {"after_create", "after_create raised"} :
               Happened(e) => /\ Happened("commit") /\ Happened("refresh")
                              /\ Pos("commit") < Pos(e) /\ Pos("refresh") < Pos(e)
        /\ Happened("before_create raised") =>
               /\ ~Happened("commit")
               /\ last.pc = "done"
               /\ table = last.pre /\ logs = last.prelogs

\* A create that went through both hooks in order, after an earlier create
\* that ended before its commit and stored no row.
C30_Witness ==
    /\ last.op = "create" /\ last.pc = "done"
    /\ last.events = <<"before_create", "commit", "refresh", "after_create">>
    /\ next_id = 3
    /\ ~table[1].present
    /\ table[2].present

\* ----------------------------------------------- concurrent request properties
\* C11: the identity a request finds in its context, and the one its
\* handler read, is one resolved for the token that request brought; a
\* request that brought no token finds none, whatever the others publish.
C11_ContextIsolatedPerRequest ==
    \A r \in Reqs :
        /\ requests[r].ctx # NoAuth =>
               /\ requests[r].token # ""
               /\ requests[r].ctx = RequestAuth(UserOfToken(requests[r].token), requests[r].token)
        /\ requests[r].read # NoAuth => requests[r].read = requests[r].ctx
        /\ requests[r].token = "" => requests[r].ctx.user = None /\ requests[r].read.user = None

\* Two requests in flight together: one read the identity of T1, the other
\* brought no token and read none.
C11_Witness ==
    \E r, q \in Reqs :
        /\ r # q
        /\ requests[r].pc = "done" /\ requests[r].token = "T1"
        /\ requests[r].read.user = UserOfToken("T1")
        /\ requests[q].pc = "done" /\ requests[q].token = ""
        /\ requests[q].read = NoAuth

C12_BothObserveExpired ==
    \E r, q \in Reqs :
        /\ r # q
        /\ requests[r].pc = "evict" /\ requests[q].pc = "evict"
        /\ requests[r].token = requests[q].token
        /\ requests[r].entry = requests[q].entry

====
